---- MODULE Spec2Model ----
(***************************************************************************)
(* A model of the validation-and-load subsystem of the ingestion pipeline: *)
(* the pydantic record schemas and SchemaValidator.validate                *)
(* (src/ingestion/validators/__init__.py) and PostgresLoader               *)
(* (src/ingestion/loaders/__init__.py).                                    *)
(*                                                                         *)
(* Scalars are tagged records: None, NaN/NaT, str (a sequence of one-      *)
(* character strings, so that len(), lower() and the regular expressions   *)
(* are computed), float (an integer number of thousandths, so that         *)
(* round(v, 2) is computed), int, datetime and bool.  A row is a function  *)
(* from column names to scalars; a DataFrame is a sequence of rows over    *)
(* the same columns, with the default RangeIndex 0..n-1.                   *)
(***************************************************************************)
EXTENDS Integers, Sequences, FiniteSets, TLC

\* ------------------------------------------------------------------ bounds

\* Longest input dataset handed to validate.
MaxRows == 3

\* validate calls in a row on one SchemaValidator, each on the previous output.
MaxCalls == 2

\* ----------------------------------------------------------------- scalars

NoneV == [t |-> "none"]
NaN == [t |-> "nan"]
Str(s) == [t |-> "str", s |-> s]
Float(m) == [t |-> "float", m |-> m]
IntV(i) == [t |-> "int", i |-> i]
Datetime(d) == [t |-> "datetime", d |-> d]
Bool(b) == [t |-> "bool", b |-> b]
\* str(e.errors()): the serialized list of a row's violations.
Repr(e) == [t |-> "str", repr |-> e]

\* pd.isna(v): None, NaN and NaT are missing; the empty string is not.
IsNa(v) == v.t \in {"none", "nan"}

\* k.startswith('_') over the column names the model uses.
MetadataCols == {"_loaded_at", "_source", "_is_valid", "_validation_errors"}
IsMetadataCol(k) == k \in MetadataCols

\* ----------------------------------------------------------------- strings

UpperChars == {"A", "B", "C", "U", "K", "J", "D"}
LowerChars == {"a", "b", "c", "u", "k", "j", "d", "o", "n", "e", "p", "l", "t",
               "m", "i", "g", "s", "h", "x"}
DigitChars == {"0", "1", "2"}

\* \w of the regular expressions.
WordChars == UpperChars \cup LowerChars \cup DigitChars \cup {"_"}

\* [\w\.-]
WordDotDashChars == WordChars \cup {".", "-"}

LowerChar(c) ==
  CASE c = "A" -> "a" [] c = "B" -> "b" [] c = "C" -> "c" [] c = "U" -> "u"
    [] c = "K" -> "k" [] c = "J" -> "j" [] c = "D" -> "d" [] OTHER -> c

\* str.lower()
Lower(s) == [i \in 1..Len(s) |-> LowerChar(s[i])]

AllIn(s, lo, hi, chars) == \A i \in lo..hi : s[i] \in chars

\* r'^[\w\.-]+@[\w\.-]+\.\w+$'
MatchEmail(s) ==
  \E p \in 1..Len(s) : \E q \in 1..Len(s) :
    /\ 1 < p /\ p + 1 < q /\ q < Len(s)
    /\ s[p] = "@" /\ s[q] = "."
    /\ AllIn(s, 1, p - 1, WordDotDashChars)
    /\ AllIn(s, p + 1, q - 1, WordDotDashChars)
    /\ AllIn(s, q + 1, Len(s), WordChars)

\* r'^(pending|completed|shipped|cancelled)$'
MatchStatus(s) ==
  s \in { <<"p","e","n","d","i","n","g">>,
          <<"c","o","m","p","l","e","t","e","d">>,
          <<"s","h","i","p","p","e","d">>,
          <<"c","a","n","c","e","l","l","e","d">> }

\* round(v, 2) on thousandths.  A value ending in 5 thousandths is a tie of
\* the decimal notation only (its binary value decides); the input values of
\* the model hold none, and the tie branch rounds half to even.
Round2(m) ==
  LET r == m % 10
  IN  IF r < 5 THEN m - r
      ELSE IF r > 5 THEN m - r + 10
      ELSE IF ((m - r) \div 10) % 2 = 0 THEN m - r ELSE m - r + 10

\* ------------------------------------------------------------------ fields

Ok(v) == [ok |-> TRUE, val |-> v]
Err(type) == [ok |-> FALSE, type |-> type]

\* str = Field(..., min_length=n)
StrMinLen(v, n) ==
  IF v.t # "str" THEN Err("string_type")
  ELSE IF Len(v.s) < n THEN Err("string_too_short")
  ELSE Ok(v)

\* email: the pattern, then the 'after' validator lowercase_email.
lowercase_email(v) == Str(Lower(v.s))

EmailField(v) ==
  IF v.t # "str" THEN Err("string_type")
  ELSE IF ~MatchEmail(v.s) THEN Err("string_pattern_mismatch")
  ELSE Ok(lowercase_email(v))

StatusField(v) ==
  IF v.t # "str" THEN Err("string_type")
  ELSE IF ~MatchStatus(v.s) THEN Err("string_pattern_mismatch")
  ELSE Ok(v)

\* float coercion of pydantic's lax mode: an int is widened, a float kept.
AsFloat(v) ==
  CASE v.t = "float" -> Ok(v)
    [] v.t = "int" -> Ok(Float(v.i * 1000))
    [] v.t = "str" -> Err("float_parsing")
    [] OTHER -> Err("float_type")

round_decimal(v) == Float(Round2(v.m))

\* price: float = Field(..., gt=0), then round_decimal.
PriceField(v) ==
  LET f == AsFloat(v)
  IN  IF ~f.ok THEN f
      ELSE IF ~(f.val.m > 0) THEN Err("greater_than")
      ELSE Ok(round_decimal(f.val))

\* cost: float = Field(..., ge=0), then round_decimal.
CostField(v) ==
  LET f == AsFloat(v)
  IN  IF ~f.ok THEN f
      ELSE IF ~(f.val.m >= 0) THEN Err("greater_than_equal")
      ELSE Ok(round_decimal(f.val))

\* quantity: int = Field(..., gt=0); a float with no fractional part is an int.
QuantityField(v) ==
  LET n == CASE v.t = "int" -> Ok(v)
             [] v.t = "float" ->
                  IF v.m % 1000 = 0 THEN Ok(IntV(v.m \div 1000))
                  ELSE Err("int_from_float")
             [] v.t = "str" -> Err("int_parsing")
             [] OTHER -> Err("int_type")
  IN  IF ~n.ok THEN n
      ELSE IF ~(n.val.i > 0) THEN Err("greater_than")
      ELSE Ok(n.val)

\* Optional[datetime] = None.  The strings of the model's inputs are the
\* empty string and a word, neither of which parses as a datetime.
OptDatetimeField(v) ==
  CASE v.t = "none" -> Ok(v)
    [] v.t = "datetime" -> Ok(v)
    [] v.t = "str" ->
         IF Len(v.s) = 0 THEN Err("datetime_from_date_parsing")
         ELSE Err("datetime_parsing")
    [] OTHER -> Err("datetime_type")

\* ----------------------------------------------------------------- schemas

SCHEMAS == {"customers", "products", "orders"}

CustomerRecord ==
  <<"customer_id", "first_name", "last_name", "email", "country", "created_at">>
ProductRecord == <<"product_id", "product_name", "category", "price", "cost">>
OrderRecord ==
  <<"order_id", "customer_id", "product_id", "quantity", "order_date", "status">>

\* schema.model_fields, in declaration order.
ModelFields(schema_name) ==
  CASE schema_name = "customers" -> CustomerRecord
    [] schema_name = "products" -> ProductRecord
    [] schema_name = "orders" -> OrderRecord

\* Fields declared with a default (= None): a missing key is not an error.
HasDefault(f) == f \in {"created_at", "order_date"}

\* One field of one schema applied to a present value.
CheckField(schema_name, f, v) ==
  CASE f \in {"created_at", "order_date"} -> OptDatetimeField(v)
    [] f = "email" -> EmailField(v)
    [] f = "status" -> StatusField(v)
    [] f = "price" -> PriceField(v)
    [] f = "cost" -> CostField(v)
    [] f = "quantity" -> QuantityField(v)
    [] f = "country" -> StrMinLen(v, 2)
    [] OTHER -> StrMinLen(v, 1)

\* schema(**row_dict) for one field: a missing key takes the default or is
\* the error 'missing'.
FieldResult(schema_name, f, row_dict) ==
  IF f \in DOMAIN row_dict THEN CheckField(schema_name, f, row_dict[f])
  ELSE IF HasDefault(f) THEN Ok(NoneV)
  ELSE Err("missing")

RECURSIVE ErrorsFrom(_, _, _, _)
\* e.errors(): one entry per failing field, in declaration order.
ErrorsFrom(schema_name, fields, k, row_dict) ==
  IF k > Len(fields) THEN <<>>
  ELSE LET r == FieldResult(schema_name, fields[k], row_dict)
           rest == ErrorsFrom(schema_name, fields, k + 1, row_dict)
       IN  IF r.ok THEN rest
           ELSE <<[loc |-> fields[k], type |-> r.type]>> \o rest

SchemaErrors(schema_name, row_dict) ==
  ErrorsFrom(schema_name, ModelFields(schema_name), 1, row_dict)

\* validated.model_dump(): every field of the schema with its validated value.
ModelDump(schema_name, row_dict) ==
  LET fields == ModelFields(schema_name)
  IN  [f \in {fields[k] : k \in 1..Len(fields)} |->
         FieldResult(schema_name, f, row_dict).val]

\* ------------------------------------------------------------- row helpers

\* {k: (None if pd.isna(v) else v) for k, v in row.to_dict().items()
\*  if not k.startswith('_')}
RowDict(row) ==
  [k \in {c \in DOMAIN row : ~IsMetadataCol(c)} |->
     IF IsNa(row[k]) THEN NoneV ELSE row[k]]

\* d.update(e), and d[k] = v.
Update(d, e) ==
  [k \in DOMAIN d \cup DOMAIN e |-> IF k \in DOMAIN e THEN e[k] ELSE d[k]]
SetKey(d, k, v) == [c \in DOMAIN d \cup {k} |-> IF c = k THEN v ELSE d[c]]

\* The merge left out: the row as read, not normalized.
ValidRowRaw(schema_name, row) == row

\* valid_row = row.to_dict(); valid_row.update(validated.model_dump())
ValidRow(schema_name, row) == Update(row, ModelDump(schema_name, RowDict(row)))

\* flagged_row = row.to_dict(); the two marker columns set.
FlaggedRow(row, errs) ==
  SetKey(SetKey(row, "_is_valid", Bool(FALSE)), "_validation_errors", Repr(errs))

\* pd.DataFrame(rows): the columns are the union of the rows' keys, and a row
\* without a key holds NaN there.
DataFrame(rows) ==
  LET cols == UNION {DOMAIN rows[k] : k \in 1..Len(rows)}
  IN  [k \in 1..Len(rows) |->
         [c \in cols |-> IF c \in DOMAIN rows[k] THEN rows[k][c] ELSE NaN]]

\* ------------------------------------------------------------------ inputs

\* The rows extractors hand over: the schema's columns plus the provenance
\* columns of BaseExtractor.add_metadata.
add_metadata(row, source_name) ==
  SetKey(SetKey(row, "_loaded_at", Datetime(9)), "_source", Str(source_name))

CustomerRow ==
  add_metadata(
    [customer_id |-> Str(<<"c", "1">>), first_name |-> Str(<<"J">>),
     last_name |-> Str(<<"D">>), email |-> Str(<<"J", "@", "b", ".", "c">>),
     country |-> Str(<<"U", "K">>), created_at |-> Datetime(1)],
    <<"c", "s">>)

ProductRow ==
  add_metadata(
    [product_id |-> Str(<<"p", "1">>), product_name |-> Str(<<"n">>),
     category |-> Str(<<"c">>), price |-> Float(1004), cost |-> Float(500)],
    <<"c", "s">>)

OrderRow ==
  add_metadata(
    [order_id |-> Str(<<"o", "1">>), customer_id |-> Str(<<"c", "1">>),
     product_id |-> Str(<<"p", "1">>), quantity |-> IntV(2),
     order_date |-> Datetime(1),
     status |-> Str(<<"s", "h", "i", "p", "p", "e", "d">>)],
    <<"c", "s">>)

InputRows(schema_name) ==
  CASE schema_name = "customers" ->
         { CustomerRow,
           SetKey(CustomerRow, "_source", Str(<<"a", "p", "i">>)),
           SetKey(CustomerRow, "email", Str(<<"j", "-", "d">>)),
           SetKey(CustomerRow, "created_at", NaN),
           SetKey(CustomerRow, "created_at", Str(<<>>)),
           SetKey(CustomerRow, "customer_id", NaN) }
    [] schema_name = "products" ->
         { ProductRow,
           SetKey(ProductRow, "price", Float(4)),
           SetKey(ProductRow, "price", Float(-1000)),
           SetKey(ProductRow, "price", NaN),
           SetKey(ProductRow, "cost", Float(-4)) }
    [] schema_name = "orders" ->
         { OrderRow,
           SetKey(OrderRow, "quantity", Float(2000)),
           SetKey(OrderRow, "quantity", Float(2500)),
           SetKey(OrderRow, "order_date", Str(<<>>)),
           SetKey(OrderRow, "status", Str(<<"d", "o", "n", "e">>)) }
    [] OTHER -> { CustomerRow }

\* Columns a source may leave out altogether (an absent key of every row).
AbsentCols(schema_name) ==
  CASE schema_name = "customers" -> {"created_at", "email"}
    [] schema_name = "products" -> {"cost"}
    [] schema_name = "orders" -> {"order_date", "status"}
    [] OTHER -> {}

DropCol(row, c) == [k \in DOMAIN row \ {c} |-> row[k]]

\* The input datasets: up to MaxRows rows, as extracted, or with one column
\* absent, or carrying an _is_valid column of their own.
Frames(schema_name) ==
  UNION {[1..n -> InputRows(schema_name)] : n \in 0..MaxRows}

Datasets(schema_name) ==
  Frames(schema_name)
    \cup {[k \in 1..Len(f) |-> DropCol(f[k], c)] :
            f \in Frames(schema_name), c \in AbsentCols(schema_name)}
    \cup {[k \in 1..Len(f) |-> SetKey(f[k], "_is_valid", Bool(FALSE))] :
            f \in Frames(schema_name)}

\* ------------------------------------------------------------------- state

VARIABLES
  mode,          \* SchemaValidator.mode
  schema_name,   \* validate's schema_name
  df,            \* validate's df: the rows, indexed 0..len-1
  vpc,           \* where the validate call is: call, loop, returned, raised
  pos,           \* rows of df iterated so far
  valid_rows,    \* validate's local valid_rows
  errors,        \* validate's local errors
  ret,           \* what the call gave its caller
  calls          \* validate calls made on this validator

vvars == <<mode, schema_name, df, vpc, pos, valid_rows, errors, ret, calls>>

VARIABLES
  engine,          \* PostgresLoader._engine: "None" or "Engine"
  engines_created, \* create_engine calls made
  connections,     \* connections opened on the warehouse
  statements,      \* statements sent to the warehouse
  table_exists,    \* the target table exists in the warehouse
  table,           \* the committed rows of the target table, by key
  pending,         \* the rows as the open transaction sees them
  lpc,             \* where the loader is: idle, load, upsert
  lcall,           \* the loader call in progress, or the last one
  lret,            \* what the last loader call gave its caller
  ncalls           \* loader calls made

lvars == <<engine, engines_created, connections, statements, table_exists,
           table, pending, lpc, lcall, lret, ncalls>>

VARIABLES
  ppc,             \* where main and IngestionPipeline.run are
  job,             \* the position in jobs of the job at hand
  metrics,         \* IngestionPipeline.metrics, without the two timestamps
  exit_code,       \* the status main gave sys.exit: <<>> until it has
  raw,             \* rows committed to each table of schema raw
  jobs_done        \* what became of each job attempted, in order

pvars == <<ppc, job, metrics, exit_code, raw, jobs_done>>

vars == <<vvars, lvars, pvars>>

Modes == {"strict", "filter", "flag"}

\* A name SchemaValidator.SCHEMAS does not hold.
UnknownSchema == "inventory"

NoReturn == [kind |-> "none"]

VInit ==
  /\ mode \in Modes
  /\ schema_name \in SCHEMAS \cup {UnknownSchema}
  /\ df \in Datasets(schema_name)
  /\ vpc = "call"
  /\ pos = 0
  /\ valid_rows = <<>>
  /\ errors = <<>>
  /\ ret = NoReturn
  /\ calls = 1

\* ---------------------------------------------------------------- validate

\* An unknown name answered with an empty result instead of an error.
UnknownSchemaEmptyResult == [kind |-> "return", df |-> <<>>, errors |-> <<>>]

\* raise ValueError(f"Unknown schema: {schema_name}")
UnknownSchemaError ==
  [kind |-> "raise", type |-> "ValueError", msg |-> "Unknown schema"]

\* if schema_name not in self.SCHEMAS: raise ValueError; else the locals.
ValidateEnter ==
  /\ vpc = "call"
  /\ IF schema_name \notin SCHEMAS
     THEN /\ vpc' = "raised"
          /\ ret' = UnknownSchemaError
     ELSE /\ vpc' = "loop"
          /\ ret' = ret
  /\ pos' = 0
  /\ valid_rows' = <<>>
  /\ errors' = <<>>
  /\ UNCHANGED <<mode, schema_name, df, calls>>
  /\ UNCHANGED <<lvars, pvars>>

\* The index the row would have in the output instead of its input index.
ErrorInfoOutputIndex(idx, errs, row) ==
  [row_index |-> Len(valid_rows), errors |-> errs, data |-> row]

\* error_info of the except branch; idx is the label of the RangeIndex.
ErrorInfo(idx, errs, row) == [row_index |-> idx, errors |-> errs, data |-> row]

\* The row put in front instead of at the end.
PrependRow(rows, r) == <<r>> \o rows

\* valid_rows.append(r)
AppendRow(rows, r) == Append(rows, r)

\* The flag-mode marker left out.
AcceptedRowUnflagged(row) == ValidRow(schema_name, row)

\* Only the validated fields kept: the metadata columns are lost.
AcceptedRowNoMetadata(row) ==
  LET valid_row == ModelDump(schema_name, RowDict(row))
  IN  IF mode = "flag" THEN SetKey(valid_row, "_is_valid", Bool(TRUE))
      ELSE valid_row

\* The try block succeeded: the row appended to valid_rows.
AcceptedRow(row) ==
  LET valid_row == ValidRow(schema_name, row)
  IN  IF mode = "flag" THEN SetKey(valid_row, "_is_valid", Bool(TRUE))
      ELSE valid_row

\* The strict branch never taken.
RaisesNever == FALSE

\* if self.mode == 'strict': raise
RaisesOnInvalid == mode = "strict"

\* The invalid row kept whatever the mode.
KeepInvalidAlways(rows, row, errs) == AppendRow(rows, FlaggedRow(row, errs))

\* elif self.mode == 'flag': the flagged row is appended; otherwise nothing.
KeepInvalid(rows, row, errs) ==
  IF mode = "flag" THEN AppendRow(rows, FlaggedRow(row, errs)) ELSE rows

\* One iteration of "for idx, row in df.iterrows()".
ValidateRow ==
  /\ vpc = "loop"
  /\ pos < Len(df)
  /\ LET idx == pos
         row == df[pos + 1]
         errs == SchemaErrors(schema_name, RowDict(row))
     IN  IF errs = <<>>
         THEN /\ valid_rows' = AppendRow(valid_rows, AcceptedRow(row))
              /\ errors' = errors
              /\ vpc' = vpc
              /\ ret' = ret
         ELSE /\ errors' = Append(errors, ErrorInfo(idx, errs, row))
              /\ IF RaisesOnInvalid
                 THEN /\ vpc' = "raised"
                      /\ ret' = [kind |-> "raise", type |-> "ValueError",
                                 msg |-> "Validation failed", errors |-> errs]
                      /\ valid_rows' = valid_rows
                 ELSE /\ vpc' = vpc
                      /\ ret' = ret
                      /\ valid_rows' = KeepInvalid(valid_rows, row, errs)
  /\ pos' = pos + 1
  /\ UNCHANGED <<mode, schema_name, df, calls>>
  /\ UNCHANGED <<lvars, pvars>>

\* result_df = pd.DataFrame(valid_rows); return result_df, errors
ValidateReturn ==
  /\ vpc = "loop"
  /\ pos = Len(df)
  /\ vpc' = "returned"
  /\ ret' = [kind |-> "return", df |-> DataFrame(valid_rows), errors |-> errors]
  /\ UNCHANGED <<mode, schema_name, df, pos, valid_rows, errors, calls>>
  /\ UNCHANGED <<lvars, pvars>>

\* The caller validates the accepted output again, same validator and schema.
Revalidate ==
  /\ vpc = "returned"
  /\ calls < MaxCalls
  /\ df' = ret.df
  /\ vpc' = "call"
  /\ pos' = 0
  /\ valid_rows' = <<>>
  /\ errors' = <<>>
  /\ ret' = NoReturn
  /\ calls' = calls + 1
  /\ UNCHANGED <<mode, schema_name>>
  /\ UNCHANGED <<lvars, pvars>>

\* ------------------------------------------------------------------ loader

\* Longest dataset handed to the loader, and loader calls in one run.
MaxLoadRows == 2
MaxLoaderCalls == 2

\* The keys and values of the loader's rows: columns id and val.
Keys == {1, 2}
Vals == {1, 2}
LoaderCols == <<"id", "val">>
LoaderRows == [id : Keys, val : Vals]
LoaderFrames == UNION {[1..n -> LoaderRows] : n \in 0..MaxLoadRows}

NoTable == [k \in {} |-> 0]

Return(v) == [kind |-> "return", value |-> v]
Raise(type) == [kind |-> "raise", type |-> type]

\* raise LoadError(f"Failed to load data: {e}"): the message holds the text
\* of the exception e that to_sql raised, and nothing else.
LoadError(e) == [kind |-> "raise", type |-> "LoadError", cause |-> e]

\* PostgresLoader.__init__, and a warehouse whose target table does not
\* exist yet.
LInit ==
  /\ engine = "None"
  /\ engines_created = 0
  /\ connections = 0
  /\ statements = 0
  /\ table_exists = FALSE
  /\ table = NoTable
  /\ pending = NoTable
  /\ lpc = "idle"
  /\ lcall = [op |-> "init"]
  /\ lret = [kind |-> "none"]
  /\ ncalls = 0

\* The empty check skipped.
DfEmptyNever(d) == FALSE

\* df.empty
DfEmpty(d) == Len(d) = 0

\* The engine property: create_engine on first use.
GetEngine ==
  /\ engine' = "Engine"
  /\ engines_created' = IF engine = "None" THEN engines_created + 1
                        ELSE engines_created

CanCall == lpc = "idle" /\ ncalls < MaxLoaderCalls

\* load up to to_sql's first step: nothing at all for an empty dataset;
\* otherwise the engine, a connection with its transaction, and the
\* if_exists rule on the target table.
LoadCall ==
  /\ CanCall
  /\ \E d \in LoaderFrames, if_exists \in {"append", "replace", "fail"},
        chunk_size \in 1..MaxLoadRows :
       /\ lcall' = [op |-> "load", df |-> d, if_exists |-> if_exists,
                    chunk_size |-> chunk_size, sent |-> 0]
       /\ IF DfEmpty(d)
          THEN /\ lret' = Return(0)
               /\ UNCHANGED <<engine, engines_created, connections,
                              statements, pending, lpc>>
          ELSE /\ GetEngine
               /\ connections' = connections + 1
               /\ statements' = statements + 1
               /\ IF if_exists = "fail" /\ table_exists
                  THEN /\ lret' = LoadError("ValueError")
                       /\ UNCHANGED <<pending, lpc>>
                  ELSE /\ lret' = [kind |-> "none"]
                       /\ pending' = IF if_exists = "replace" THEN NoTable
                                     ELSE table
                       /\ lpc' = "load"
  /\ ncalls' = ncalls + 1
  /\ UNCHANGED <<table_exists, table>>
  /\ UNCHANGED <<vvars, pvars>>

\* The rows of one chunk: positions sent+1 .. sent+chunk_size of the dataset.
ChunkEnd == IF lcall.sent + lcall.chunk_size < Len(lcall.df)
            THEN lcall.sent + lcall.chunk_size ELSE Len(lcall.df)

RECURSIVE InsertRows(_, _, _, _)
\* The table after inserting rows lo..hi of d; a key already there is a
\* violation of the primary key, marked by "dup".
InsertRows(t, d, lo, hi) ==
  IF lo > hi THEN [ok |-> TRUE, t |-> t]
  ELSE IF d[lo].id \in DOMAIN t THEN [ok |-> FALSE, t |-> t]
  ELSE InsertRows([k \in DOMAIN t \cup {d[lo].id} |->
                     IF k = d[lo].id THEN d[lo].val ELSE t[k]],
                  d, lo + 1, hi)

\* One chunk of to_sql: a multi-row INSERT that the warehouse takes or
\* refuses; a refusal rolls the transaction back and load raises LoadError.
LoadBatch ==
  /\ lpc = "load"
  /\ lcall.sent < Len(lcall.df)
  /\ statements' = statements + 1
  /\ LET r == InsertRows(pending, lcall.df, lcall.sent + 1, ChunkEnd)
     IN  \E accepted \in {TRUE, FALSE} :
           IF accepted /\ r.ok
           THEN /\ pending' = r.t
                /\ lcall' = [lcall EXCEPT !.sent = ChunkEnd]
                /\ UNCHANGED <<lpc, lret>>
           ELSE /\ pending' = table
                /\ lpc' = "idle"
                /\ lret' = LoadError("DBAPIError")
                /\ lcall' = lcall
  /\ UNCHANGED <<engine, engines_created, connections, table_exists, table,
                 ncalls>>
  /\ UNCHANGED <<vvars, pvars>>

\* to_sql finished: the transaction commits and load returns len(df).
LoadReturn ==
  /\ lpc = "load"
  /\ lcall.sent = Len(lcall.df)
  /\ table' = pending
  /\ table_exists' = TRUE
  /\ lpc' = "idle"
  /\ lret' = Return(Len(lcall.df))
  /\ UNCHANGED <<engine, engines_created, connections, statements, pending,
                 lcall, ncalls>>
  /\ UNCHANGED <<vvars, pvars>>

\* key_columns and update_columns as callers give them; None is the default.
KeySpecs == {<<"id">>, <<>>, <<"sku">>}
UpdateSpecs == {"None", <<"id">>}

SeqSet(q) == {q[k] : k \in 1..Len(q)}

\* The test turned round: the key columns themselves.
DefaultUpdateColumnsInverted(key_columns) ==
  SelectSeq(LoaderCols, LAMBDA c : c \in SeqSet(key_columns))

\* [c for c in df.columns if c not in key_columns]
DefaultUpdateColumns(key_columns) ==
  SelectSeq(LoaderCols, LAMBDA c : c \notin SeqSet(key_columns))

\* if update_columns is None: update_columns = [...]
UpdateColumns(call) ==
  IF call.update_columns = "None" THEN DefaultUpdateColumns(call.key_columns)
  ELSE call.update_columns

\* upsert up to engine.begin(): nothing at all for an empty dataset;
\* otherwise the statement is built and a transaction opened.
UpsertCall ==
  /\ CanCall
  /\ \E d \in LoaderFrames, key_columns \in KeySpecs,
        update_columns \in UpdateSpecs :
       /\ lcall' = [op |-> "upsert", df |-> d, key_columns |-> key_columns,
                    update_columns |-> update_columns, sent |-> 0]
       /\ IF DfEmpty(d)
          THEN /\ lret' = Return(0)
               /\ UNCHANGED <<engine, engines_created, connections, pending,
                              lpc>>
          ELSE /\ GetEngine
               /\ connections' = connections + 1
               /\ lret' = [kind |-> "none"]
               /\ pending' = table
               /\ lpc' = "upsert"
  /\ ncalls' = ncalls + 1
  /\ UNCHANGED <<statements, table_exists, table>>
  /\ UNCHANGED <<vvars, pvars>>

\* The warehouse can run INSERT ... ON CONFLICT (key_list) DO UPDATE SET
\* update_set: the table exists, the conflict target is its key and the SET
\* list is not empty and names columns of the table.
StatementRuns(call) ==
  /\ table_exists
  /\ call.key_columns = <<"id">>
  /\ UpdateColumns(call) # <<>>
  /\ SeqSet(UpdateColumns(call)) \subseteq SeqSet(LoaderCols)

\* INSERT ... ON CONFLICT (id) DO UPDATE SET c = EXCLUDED.c for one row.
UpsertInto(t, row, update_columns) ==
  [k \in DOMAIN t \cup {row.id} |->
     IF k # row.id THEN t[k]
     ELSE IF k \in DOMAIN t /\ "val" \notin SeqSet(update_columns) THEN t[k]
     ELSE row.val]

\* Every statement committed as it is sent: the rows before the failure stay.
RollbackKeepsEarlier(committed, seen) == seen

\* "with self.engine.begin()" left by an exception: the transaction is rolled
\* back, and the table is what was committed before it began.
Rollback(committed, seen) == committed

\* conn.execute(text(sql), row.to_dict()) for the next row; a statement the
\* warehouse refuses leaves the with block by its exception.
UpsertRow ==
  /\ lpc = "upsert"
  /\ lcall.sent < Len(lcall.df)
  /\ statements' = statements + 1
  /\ \E accepted \in {TRUE, FALSE} :
       IF accepted /\ StatementRuns(lcall)
       THEN /\ pending' = UpsertInto(pending, lcall.df[lcall.sent + 1],
                                     UpdateColumns(lcall))
            /\ lcall' = [lcall EXCEPT !.sent = lcall.sent + 1]
            /\ UNCHANGED <<lpc, lret, table>>
       ELSE /\ table' = Rollback(table, pending)
            /\ pending' = table'
            /\ lpc' = "idle"
            /\ lret' = Raise("DBAPIError")
            /\ lcall' = lcall
  /\ UNCHANGED <<engine, engines_created, connections, table_exists, ncalls>>
  /\ UNCHANGED <<vvars, pvars>>

\* The with block ends: commit, and upsert returns len(df).
UpsertReturn ==
  /\ lpc = "upsert"
  /\ lcall.sent = Len(lcall.df)
  /\ table' = pending
  /\ lpc' = "idle"
  /\ lret' = Return(Len(lcall.df))
  /\ UNCHANGED <<engine, engines_created, connections, statements,
                 table_exists, pending, lcall, ncalls>>
  /\ UNCHANGED <<vvars, pvars>>

\* test_connection: SELECT 1 on a connection of the engine; True, or False
\* when connecting or the statement fails.
TestConnection ==
  /\ CanCall
  /\ GetEngine
  /\ lcall' = [op |-> "test_connection"]
  /\ \E up \in {TRUE, FALSE} :
       IF up
       THEN /\ connections' = connections + 1
            /\ statements' = statements + 1
            /\ lret' = Return(TRUE)
       ELSE /\ UNCHANGED <<connections, statements>>
            /\ lret' = Return(FALSE)
  /\ ncalls' = ncalls + 1
  /\ UNCHANGED <<table_exists, table, pending, lpc>>
  /\ UNCHANGED <<vvars, pvars>>

\* close: the engine is disposed of and forgotten.
Close ==
  /\ CanCall
  /\ engine = "Engine"
  /\ engine' = "None"
  /\ lcall' = [op |-> "close"]
  /\ lret' = [kind |-> "none"]
  /\ ncalls' = ncalls + 1
  /\ UNCHANGED <<engines_created, connections, statements, table_exists,
                 table, pending, lpc>>
  /\ UNCHANGED <<vvars, pvars>>

\* ---------------------------------------------------------------- pipeline

\* jobs of IngestionPipeline.run: the names, in list order; the table of a
\* job has the job's name.
Jobs == <<"customers", "products", "orders">>

\* self.metrics of IngestionPipeline.__init__.
NewMetrics ==
  [tables_processed |-> 0, rows_loaded |-> 0, rows_rejected |-> 0,
   errors |-> <<>>]

\* No pipeline: the validator or the loader is used on its own.
PIdle ==
  /\ ppc = "off"
  /\ job = 0
  /\ metrics = NewMetrics
  /\ exit_code = <<>>
  /\ raw = [t \in {Jobs[j] : j \in 1..Len(Jobs)} |-> 0]
  /\ jobs_done = <<>>

\* IngestionPipeline.__init__ and main up to pipeline.run().
PInit ==
  /\ ppc = "start"
  /\ job = 0
  /\ metrics = NewMetrics
  /\ exit_code = <<>>
  /\ raw = [t \in {Jobs[j] : j \in 1..Len(Jobs)} |-> 0]
  /\ jobs_done = <<>>

\* SchemaValidator(mode='filter'), not called yet.
VNew ==
  /\ mode = "filter"
  /\ schema_name = Jobs[1]
  /\ df = <<>>
  /\ vpc = "idle"
  /\ pos = 0
  /\ valid_rows = <<>>
  /\ errors = <<>>
  /\ ret = NoReturn
  /\ calls = 0

\* Longest file a job reads.
MaxFileRows == 2

\* chunk_size: int = 10000
DefaultChunkSize == 10000

\* source_name=f"csv_{job['name']}"
SourceName(name) ==
  CASE name = "customers" ->
         <<"c", "s", "v", "_", "c", "u", "s", "t", "o", "m", "e", "r", "s">>
    [] name = "products" ->
         <<"c", "s", "v", "_", "p", "r", "o", "d", "u", "c", "t", "s">>
    [] name = "orders" -> <<"c", "s", "v", "_", "o", "r", "d", "e", "r", "s">>

\* The rows of the job's file as pd.read_csv gives them (an empty cell is
\* read as NaN, never as ''): for each schema a row that passes, a row that
\* passes with an empty cell or a value to convert, and a row that fails.
CsvRows(name) ==
  CASE name = "customers" ->
         { CustomerRow,
           SetKey(CustomerRow, "created_at", NaN),
           SetKey(CustomerRow, "email", Str(<<"j", "-", "d">>)) }
    [] name = "products" ->
         { ProductRow,
           SetKey(ProductRow, "price", Float(4)),
           SetKey(ProductRow, "price", NaN) }
    [] name = "orders" ->
         { OrderRow,
           SetKey(OrderRow, "quantity", Float(2000)),
           SetKey(OrderRow, "status", Str(<<"d", "o", "n", "e">>)) }

\* CSVExtractor.extract: the rows of the file, then add_metadata.
Extracted(name) ==
  {[k \in 1..Len(f) |-> add_metadata(f[k], SourceName(name))] :
     f \in UNION {[1..n -> CsvRows(name)] : n \in 0..MaxFileRows}}

\* if not self.loader.test_connection(): raise RuntimeError, which main
\* catches and turns into exit status 1; otherwise the jobs begin.
PreFlight ==
  /\ ppc = "start"
  /\ GetEngine
  /\ lcall' = [op |-> "test_connection"]
  /\ ncalls' = ncalls + 1
  /\ \E up \in {TRUE, FALSE} :
       IF up
       THEN /\ connections' = connections + 1
            /\ statements' = statements + 1
            /\ lret' = Return(TRUE)
            /\ ppc' = "jobs"
            /\ job' = 1
            /\ exit_code' = exit_code
       ELSE /\ UNCHANGED <<connections, statements, job>>
            /\ lret' = Return(FALSE)
            /\ ppc' = "exited"
            /\ exit_code' = <<1>>
  /\ UNCHANGED <<table_exists, table, pending, lpc, metrics, raw, jobs_done>>
  /\ UNCHANGED vvars

\* Only the loader's own error caught.
CaughtLoadErrorOnly(e) == e = "LoadError"

\* except Exception as e: every error a job raises is caught.
Caught(e) == TRUE

\* A job raised e with the metrics at m: run's except branch appends the
\* error and goes on to the next job; an error it does not catch leaves run
\* and main exits with status 1.
Fails(name, e, m) ==
  IF Caught(e)
  THEN /\ metrics' = [m EXCEPT !.errors = Append(@, [job |-> name, error |-> e])]
       /\ job' = job + 1
       /\ ppc' = "jobs"
       /\ exit_code' = exit_code
  ELSE /\ metrics' = m
       /\ job' = job
       /\ ppc' = "exited"
       /\ exit_code' = <<1>>

\* What became of a job: how it ended and what validate had given it.
Done(name, outcome, accepted, rejected) ==
  [job |-> name, outcome |-> outcome, accepted |-> accepted,
   rejected |-> rejected]

\* The next job of the loop: extractor.extract() raises ExtractionError, or
\* gives the dataset that self.validator.validate is called with.
JobExtract ==
  /\ ppc = "jobs"
  /\ job <= Len(Jobs)
  /\ LET name == Jobs[job]
     IN  \/ /\ Fails(name, "ExtractionError", metrics)
            /\ jobs_done' = Append(jobs_done, Done(name, "extract_failed", 0, 0))
            /\ UNCHANGED vvars
         \/ \E d \in Extracted(name) :
              /\ df' = d
              /\ schema_name' = name
              /\ vpc' = "call"
              /\ calls' = calls + 1
              /\ ppc' = "validate"
              /\ UNCHANGED <<mode, pos, valid_rows, errors, ret, job, metrics,
                             exit_code, jobs_done>>
  /\ UNCHANGED <<lvars, raw>>

\* The raw dataset handed to load instead of the accepted rows.
LoadArgumentUnfiltered(df_valid, extracted) == extracted

\* self.loader.load(df=df_valid, ...)
LoadArgument(df_valid, extracted) == df_valid

\* to_sql's statements for n rows: the table check, then one INSERT a chunk.
LoadStatements(n) == 1 + (n + DefaultChunkSize - 1) \div DefaultChunkSize

\* The job ended well with n rows loaded and the metrics at m:
\* rows_loaded += rows_loaded, then tables_processed += 1.
Succeeds(m, n) ==
  /\ metrics' = [m EXCEPT !.rows_loaded = @ + n, !.tables_processed = @ + 1]
  /\ job' = job + 1
  /\ ppc' = "jobs"
  /\ exit_code' = exit_code

\* The rest of _process_job once validate has ended, with run's bookkeeping
\* for the job: rows_rejected, the load of the accepted rows (append, the
\* default chunk size), rows_loaded, and tables_processed or the except
\* branch.  The warehouse takes the INSERT or refuses it.  The job's locals
\* are gone afterwards.  The table of the job is counted in raw; table and
\* pending are the one table of the loader alone.
JobLoad ==
  /\ ppc = "validate"
  /\ vpc \in {"returned", "raised"}
  /\ LET name == Jobs[job]
     IN  IF vpc = "raised"
         THEN /\ Fails(name, ret.type, metrics)
              /\ jobs_done' = Append(jobs_done,
                                     Done(name, "validate_failed", 0, 0))
              /\ UNCHANGED <<lvars, raw>>
         ELSE LET m == [metrics EXCEPT !.rows_rejected = @ + Len(ret.errors)]
                  d == LoadArgument(ret.df, df)
                  call == [op |-> "load", table |-> name,
                           if_exists |-> "append", rows |-> Len(d)]
              IN  /\ lcall' = call
                  /\ ncalls' = ncalls + 1
                  /\ UNCHANGED <<table_exists, table, pending, lpc>>
                  /\ IF DfEmpty(d)
                     THEN /\ lret' = Return(0)
                          /\ Succeeds(m, 0)
                          /\ jobs_done' =
                               Append(jobs_done,
                                      Done(name, "loaded", Len(ret.df),
                                           Len(ret.errors)))
                          /\ UNCHANGED <<engine, engines_created, connections,
                                         statements, raw>>
                     ELSE /\ GetEngine
                          /\ connections' = connections + 1
                          /\ statements' = statements + LoadStatements(Len(d))
                          /\ \E accepted \in {TRUE, FALSE} :
                               /\ IF accepted
                                  THEN /\ lret' = Return(Len(d))
                                       /\ raw' = [raw EXCEPT ![name] = @ + Len(d)]
                                       /\ Succeeds(m, lret'.value)
                                       /\ jobs_done' =
                                            Append(jobs_done,
                                                   Done(name, "loaded",
                                                        Len(ret.df),
                                                        Len(ret.errors)))
                                  ELSE /\ lret' = LoadError("DBAPIError")
                                       /\ raw' = raw
                                       /\ Fails(name, lret'.type, m)
                                       /\ jobs_done' =
                                            Append(jobs_done,
                                                   Done(name, "load_failed",
                                                        Len(ret.df),
                                                        Len(ret.errors)))
  /\ df' = <<>>
  /\ vpc' = "idle"
  /\ pos' = 0
  /\ valid_rows' = <<>>
  /\ errors' = <<>>
  /\ ret' = NoReturn
  /\ UNCHANGED <<mode, schema_name, calls>>

\* The loop is over: end_time, _log_summary, return self.metrics.
Summary ==
  /\ ppc = "jobs"
  /\ job > Len(Jobs)
  /\ ppc' = "summary"
  /\ UNCHANGED <<job, metrics, exit_code, raw, jobs_done>>
  /\ UNCHANGED <<vvars, lvars>>

\* main: sys.exit(1) if metrics['errors'], else sys.exit(0).
Exit ==
  /\ ppc = "summary"
  /\ exit_code' = IF metrics.errors # <<>> THEN <<1>> ELSE <<0>>
  /\ ppc' = "exited"
  /\ UNCHANGED <<job, metrics, raw, jobs_done>>
  /\ UNCHANGED <<vvars, lvars>>

\* ---------------------------------------------------------- specifications

\* A validator whose loader is never used.
VNext == ValidateEnter \/ ValidateRow \/ ValidateReturn \/ Revalidate

InitValidator == VInit /\ LInit /\ PIdle

SpecValidator == InitValidator /\ [][VNext]_vars

\* A loader beside a validator that is never called.
VIdle ==
  /\ mode = "filter"
  /\ schema_name = "customers"
  /\ df = <<>>
  /\ vpc = "call"
  /\ pos = 0
  /\ valid_rows = <<>>
  /\ errors = <<>>
  /\ ret = NoReturn
  /\ calls = 1

LNext ==
  \/ LoadCall \/ LoadBatch \/ LoadReturn
  \/ UpsertCall \/ UpsertRow \/ UpsertReturn
  \/ TestConnection \/ Close

InitLoader == VIdle /\ LInit /\ PIdle

SpecLoader == InitLoader /\ [][LNext]_vars

\* main: the pipeline with its validator and its loader.
PNext ==
  \/ PreFlight \/ JobExtract
  \/ ValidateEnter \/ ValidateRow \/ ValidateReturn
  \/ JobLoad \/ Summary \/ Exit

InitPipeline == VNew /\ LInit /\ PInit

SpecPipeline == InitPipeline /\ [][PNext]_vars

\* The process is not stopped from outside: a step that can be taken is.
FairPipeline == SpecPipeline /\ WF_vars(PNext)

\* ------------------------------------------------- properties of validate

\* A column of a row, or a marker when the row has no such column.
Get(row, c) == IF c \in DOMAIN row THEN row[c] ELSE [t |-> "absent"]

Restrict(row, cols) == [c \in DOMAIN row \cap cols |-> row[c]]

\* The row fails the schema of the current call.
Invalid(row) == SchemaErrors(schema_name, RowDict(row)) # <<>>

RECURSIVE InvalidFrom(_, _)
InvalidFrom(d, k) ==
  IF k > Len(d) THEN <<>>
  ELSE (IF Invalid(d[k]) THEN <<k>> ELSE <<>>) \o InvalidFrom(d, k + 1)

RECURSIVE ValidFrom(_, _)
ValidFrom(d, k) ==
  IF k > Len(d) THEN <<>>
  ELSE (IF Invalid(d[k]) THEN <<>> ELSE <<k>>) \o ValidFrom(d, k + 1)

\* The positions (1-based, increasing) of the rows that fail / pass the schema.
InvalidPositions(d) == InvalidFrom(d, 1)
ValidPositions(d) == ValidFrom(d, 1)

Returned == vpc = "returned"

\* C1: in filter mode the accepted rows and the errors of a returned call
\* add up to the input rows; the errors name distinct input rows, exactly
\* those that fail the schema, and every other row is accepted: each input
\* row is in exactly one of the two.
C1_FilterConservation ==
  (Returned /\ mode = "filter") =>
    LET rejected == {ret.errors[j].row_index : j \in 1..Len(ret.errors)}
    IN  /\ Len(ret.df) + Len(ret.errors) = Len(df)
        /\ Cardinality(rejected) = Len(ret.errors)
        /\ rejected = {k - 1 : k \in {q \in 1..Len(df) : Invalid(df[q])}}
        /\ Len(ret.df) = Len(df) - Cardinality(rejected)

C1_Witness ==
  /\ Returned /\ mode = "filter"
  /\ Len(df) >= 3 /\ Len(ret.df) >= 1 /\ Len(ret.errors) >= 1

\* C2: in flag mode every input row is in the accepted output, so the
\* lengths agree; row k carries _is_valid, true exactly when input row k
\* passes the schema; an invalid row carries the serialized violations; the
\* error list has one entry per invalid row.
C2_FlagKeepsEveryRow ==
  (Returned /\ mode = "flag") =>
    /\ Len(ret.df) = Len(df)
    /\ \A k \in 1..Len(df) :
         /\ Get(ret.df[k], "_is_valid") = Bool(~Invalid(df[k]))
         /\ Invalid(df[k]) =>
              Get(ret.df[k], "_validation_errors")
                = Repr(SchemaErrors(schema_name, RowDict(df[k])))
    /\ Len(ret.errors) = Len(InvalidPositions(df))
    /\ \A j \in 1..Len(ret.errors) :
         ret.errors[j].row_index = InvalidPositions(df)[j] - 1

C2_Witness ==
  /\ Returned /\ mode = "flag" /\ Len(df) >= 3
  /\ InvalidPositions(df) # <<>> /\ ValidPositions(df) # <<>>
  /\ Get(ret.df[InvalidPositions(df)[1]], "_is_valid") = Bool(FALSE)

\* C3: in strict mode a dataset with an invalid row never returns: the call
\* raises at the first invalid row, having recorded that one error (its
\* index, violations and raw values), gives the caller no accepted rows, and
\* examines no row after it.
C3_StrictFailFast ==
  (mode = "strict" /\ schema_name \in SCHEMAS /\ InvalidPositions(df) # <<>>) =>
    LET p == InvalidPositions(df)[1]
    IN  /\ pos <= p
        /\ ~Returned
        /\ (vpc = "raised") <=> (pos = p)
        /\ pos = p =>
             /\ ret.kind = "raise" /\ "df" \notin DOMAIN ret
             /\ ret.errors = SchemaErrors(schema_name, RowDict(df[p]))
             /\ Len(errors) = 1
             /\ errors[1].row_index = p - 1
             /\ errors[1].data = df[p]

C3_Witness ==
  /\ mode = "strict" /\ schema_name \in SCHEMAS /\ vpc = "raised"
  /\ Len(df) = 3 /\ Len(InvalidPositions(df)) = 1 /\ pos = 2
  /\ Len(valid_rows) = 1 /\ ret.kind = "raise"

\* The row validate puts out for an input row.
OutputRow(row) ==
  IF Invalid(row)
  THEN FlaggedRow(row, SchemaErrors(schema_name, RowDict(row)))
  ELSE AcceptedRow(row)

\* C4: the accepted output keeps the input order: in filter mode it is the
\* rows that pass, in input order; in flag mode row k of the output is made
\* from row k of the input.
C4_OrderPreserved ==
  /\ (Returned /\ mode = "filter") =>
       LET vp == ValidPositions(df)
       IN  /\ Len(ret.df) = Len(vp)
           /\ \A j \in 1..Len(vp) : ret.df[j] = OutputRow(df[vp[j]])
  /\ (Returned /\ mode = "flag") =>
       /\ Len(ret.df) = Len(df)
       /\ \A k \in 1..Len(df) :
            LET out == OutputRow(df[k])
            IN  Restrict(ret.df[k], DOMAIN out) = out

C4_Witness ==
  /\ Returned /\ mode = "filter" /\ Len(df) = 3
  /\ ValidPositions(df) = <<1, 3>>
  /\ ret.df[1] # ret.df[2]

\* C5: every entry of the returned error list holds the index its row has in
\* the input, that row's violations and its raw values; the entries are in
\* increasing input order and every invalid row has one.
C5_ErrorsCarryInputIndex ==
  Returned =>
    /\ \A j \in 1..Len(ret.errors) :
         LET e == ret.errors[j]
         IN  /\ e.row_index \in 0..(Len(df) - 1)
             /\ e.data = df[e.row_index + 1]
             /\ Invalid(e.data)
             /\ e.errors = SchemaErrors(schema_name, RowDict(e.data))
    /\ \A j \in 1..(Len(ret.errors) - 1) :
         ret.errors[j].row_index < ret.errors[j + 1].row_index
    /\ \A k \in 1..Len(df) :
         Invalid(df[k]) => \E j \in 1..Len(ret.errors) :
                             ret.errors[j].row_index = k - 1

C5_Witness ==
  /\ Returned /\ mode = "filter" /\ Len(df) = 3
  /\ Len(ret.errors) = 2 /\ Len(ret.df) = 1
  /\ ret.errors[1].row_index = 1 /\ ret.errors[2].row_index = 2
  /\ ret.errors[1].data # ret.errors[2].data

\* The input position (1-based) of output row j of a returned call.
SourcePos(j) == IF mode = "flag" THEN j ELSE ValidPositions(df)[j]

OutputLen == IF mode = "flag" THEN Len(df) ELSE Len(ValidPositions(df))

\* The input row at position k (1-based) has an entry in the returned errors.
Rejected(k) == \E j \in 1..Len(ret.errors) : ret.errors[j].row_index = k - 1

\* The columns flag mode writes itself.
MarkerCols == {"_is_valid", "_validation_errors"}

\* Rows that agree on every column that is not metadata are accepted or
\* rejected alike.
MetadataIgnored ==
  \A k1 \in 1..Len(df) : \A k2 \in 1..Len(df) :
    (Restrict(df[k1], DOMAIN df[k1] \ MetadataCols)
       = Restrict(df[k2], DOMAIN df[k2] \ MetadataCols))
      => (Rejected(k1) <=> Rejected(k2))

\* Output row j holds the input's value in each of the given columns.
KeepsCols(j, cols) ==
  \A c \in cols : Get(ret.df[j], c) = Get(df[SourcePos(j)], c)

\* C6 as stated: metadata columns never decide acceptance, and every
\* accepted row holds every metadata column of its input row unchanged, in
\* filter and in flag mode.
C6_MetadataUnchanged ==
  (Returned /\ mode \in {"filter", "flag"}) =>
    /\ MetadataIgnored
    /\ Len(ret.df) = OutputLen
    /\ \A j \in 1..Len(ret.df) :
         KeepsCols(j, DOMAIN df[SourcePos(j)] \cap MetadataCols)

\* C6 as amended: the same, except that in flag mode the columns _is_valid
\* and _validation_errors are the validator's own and are overwritten.
C6_MetadataUnchangedButMarkers ==
  (Returned /\ mode \in {"filter", "flag"}) =>
    /\ MetadataIgnored
    /\ Len(ret.df) = OutputLen
    /\ \A j \in 1..Len(ret.df) :
         KeepsCols(j, (DOMAIN df[SourcePos(j)] \cap MetadataCols)
                        \ (IF mode = "flag" THEN MarkerCols ELSE {}))

C6_Witness ==
  /\ Returned /\ mode = "flag" /\ calls = 1 /\ Len(df) >= 2
  /\ df[1] # df[2]
  /\ Restrict(df[1], DOMAIN df[1] \ MetadataCols)
       = Restrict(df[2], DOMAIN df[2] \ MetadataCols)
  /\ Get(df[1], "_is_valid") = Bool(FALSE)
  /\ Get(ret.df[1], "_is_valid") = Bool(TRUE)
  /\ Get(ret.df[1], "_source") = df[1]["_source"]
  /\ Get(ret.df[2], "_source") = df[2]["_source"]

\* C7 as stated: validating in filter mode the accepted output of a previous
\* call rejects nothing and returns its input unchanged.
C7_RevalidationIdempotent ==
  (Returned /\ mode = "filter" /\ calls >= 2) =>
    /\ ret.errors = <<>>
    /\ ret.df = df

\* A value considered missing: an absent key, None, NaN, or the empty string.
Missing(row, f) ==
  \/ f \notin DOMAIN row
  \/ row[f].t \in {"none", "nan"}
  \/ row[f] = Str(<<>>)

FieldsOf(name) == {ModelFields(name)[k] : k \in 1..Len(ModelFields(name))}

\* C8 as stated: a missing value in a nullable field is no violation, and a
\* missing value in a non-nullable field makes the row invalid.
C8_MissingIsNull ==
  (Returned /\ mode \in {"filter", "flag"}) =>
    \A k \in 1..Len(df) : \A f \in FieldsOf(schema_name) :
      Missing(df[k], f) =>
        IF HasDefault(f)
        THEN \A j \in 1..Len(ret.errors) :
               ret.errors[j].row_index = k - 1 =>
                 \A n \in 1..Len(ret.errors[j].errors) :
                   ret.errors[j].errors[n].loc # f
        ELSE Rejected(k)

\* Output row j holds the validated value of every field of its input row
\* that passed its checks.
PassingFieldsNormalized(j) ==
  \A f \in FieldsOf(schema_name) :
    LET r == FieldResult(schema_name, f, RowDict(df[SourcePos(j)]))
    IN  r.ok => Get(ret.df[j], f) = r.val

\* C9 as stated: every accepted row, the rows flagged invalid included,
\* holds the normalized value of each field that passed, over the original
\* values of the other columns.
C9_NormalizationOnEveryRow ==
  (Returned /\ mode \in {"filter", "flag"}) =>
    /\ Len(ret.df) = OutputLen
    /\ \A j \in 1..Len(ret.df) :
         /\ PassingFieldsNormalized(j)
         /\ KeepsCols(j, DOMAIN df[SourcePos(j)]
                           \ (FieldsOf(schema_name) \cup MarkerCols))

\* C9 as amended: the rows that passed the schema (every output row in
\* filter mode, the rows marked valid in flag mode) hold the normalized value
\* of each field over the original values of the other columns; a row flagged
\* invalid holds the original value of every column, none normalized.
C9_NormalizationOnValidRows ==
  (Returned /\ mode \in {"filter", "flag"}) =>
    /\ Len(ret.df) = OutputLen
    /\ \A j \in 1..Len(ret.df) :
         IF Invalid(df[SourcePos(j)])
         THEN KeepsCols(j, DOMAIN df[SourcePos(j)] \ MarkerCols)
         ELSE /\ PassingFieldsNormalized(j)
              /\ KeepsCols(j, DOMAIN df[SourcePos(j)]
                                \ (FieldsOf(schema_name) \cup MarkerCols))

C9_Witness ==
  /\ Returned /\ mode = "flag" /\ schema_name = "customers" /\ Len(df) >= 2
  /\ Invalid(df[1]) /\ ~Invalid(df[2])
  /\ FieldResult(schema_name, "email", RowDict(df[1])).ok
  /\ Get(ret.df[1], "email") = Str(<<"J", "@", "b", ".", "c">>)
  /\ Get(ret.df[2], "email") = Str(<<"j", "@", "b", ".", "c">>)
  /\ df[2]["email"] = Str(<<"J", "@", "b", ".", "c">>)

\* C16: a validate call with a schema name that is not registered examines
\* no row and collects nothing, whatever the dataset and the mode: it ends by
\* raising the unknown-schema error, which carries neither accepted rows nor
\* an error list, and it never returns.
C16_UnknownSchemaFails ==
  schema_name \notin SCHEMAS =>
    /\ vpc \in {"call", "raised"}
    /\ pos = 0 /\ valid_rows = <<>> /\ errors = <<>>
    /\ vpc = "call" => ret = NoReturn
    /\ vpc = "raised" =>
         /\ ret.kind = "raise"
         /\ ret.type = "ValueError" /\ ret.msg = "Unknown schema"
         /\ DOMAIN ret \cap {"df", "errors"} = {}

C16_Witness ==
  /\ schema_name = UnknownSchema /\ vpc = "raised"
  /\ mode = "flag" /\ Len(df) = 2
  /\ ret.kind = "raise" /\ pos = 0

\* ---------------------------------------------------- properties of loader

\* C10: a load or an upsert of an empty dataset returns 0 at once and leaves
\* every trace of the warehouse as it was: no engine is created, no
\* connection opened, no statement sent, the table and any transaction
\* untouched, whatever the other arguments are.
C10_EmptyDatasetNoOp ==
  [][ (ncalls' = ncalls + 1 /\ lcall'.op \in {"load", "upsert"}
         /\ lcall'.df = <<>>)
        => /\ lret' = Return(0)
           /\ lpc' = "idle"
           /\ UNCHANGED <<engine, engines_created, connections, statements,
                          table_exists, table, pending>> ]_vars

C10_Witness ==
  /\ ncalls = 2 /\ lpc = "idle"
  /\ lcall.op = "upsert" /\ lcall.df = <<>> /\ lcall.key_columns = <<>>
  /\ lret = Return(0)
  /\ engine = "None" /\ engines_created = 0
  /\ connections = 0 /\ statements = 0

\* key_columns that name no key of the dataset: none at all, or a column the
\* dataset does not have.
InvalidKeySpec(call) ==
  \/ call.key_columns = <<>>
  \/ ~(SeqSet(call.key_columns) \subseteq SeqSet(LoaderCols))

\* C11 as stated: an upsert of a non-empty dataset whose key_columns are
\* empty or name a column the dataset does not have sends no statement to
\* the warehouse and ends with the error InvalidKeySpec.
C11_InvalidKeySpecRefused ==
  [][ (lcall'.op = "upsert" /\ lcall'.df # <<>> /\ InvalidKeySpec(lcall'))
        => /\ statements' = statements
           /\ lpc' = "idle" => lret' = Raise("InvalidKeySpec") ]_vars

RowsFor(d, k) == {i \in 1..Len(d) : d[i].id = k}

First(S) == CHOOSE i \in S : \A j \in S : i <= j
Last(S) == CHOOSE i \in S : \A j \in S : j <= i

\* The columns an upsert call overwrites on conflict: those given, or every
\* column of the dataset that is not a key column.
Overwritten(call) ==
  IF call.update_columns = "None"
  THEN SeqSet(LoaderCols) \ SeqSet(call.key_columns)
  ELSE SeqSet(call.update_columns)

\* C13: a committed upsert leaves one row for each key of the table and of
\* the dataset and no other.  A key the dataset does not carry keeps its
\* row.  A key K that was present keeps its value when val is not among the
\* overwritten columns, and otherwise holds the value of the last incoming
\* row for K.  A key that was not present is inserted with the value of its
\* first incoming row, overwritten by later rows for it in the same way.
C13_UpsertOverwrites ==
  [][ (lpc = "upsert" /\ lpc' = "idle" /\ lret'.kind = "return") =>
        /\ DOMAIN table' = DOMAIN table \cup {lcall.df[i].id : i \in 1..Len(lcall.df)}
        /\ \A k \in DOMAIN table' :
             LET at == RowsFor(lcall.df, k)
             IN  table'[k] =
                   IF at = {} THEN table[k]
                   ELSE IF "val" \in Overwritten(lcall)
                        THEN lcall.df[Last(at)].val
                   ELSE IF k \in DOMAIN table THEN table[k]
                   ELSE lcall.df[First(at)].val ]_vars

\* Key 1 is committed with value 1 beside key 2; an upsert with the default
\* update columns has sent its one row, key 1 with value 2, and is about to
\* commit: the transaction holds value 2 for key 1 and key 2 as it was.
C13_Witness ==
  /\ lpc = "upsert" /\ lcall.sent = 1 /\ Len(lcall.df) = 1
  /\ lcall.update_columns = "None" /\ lcall.key_columns = <<"id">>
  /\ lcall.df[1] = [id |-> 1, val |-> 2]
  /\ DOMAIN table = {1, 2} /\ table[1] = 1
  /\ DOMAIN pending = {1, 2} /\ pending[1] = 2 /\ pending[2] = table[2]

\* C14 as stated: once a load of a non-empty dataset has ended, either every
\* batch was sent and it returned the number of rows of the dataset, or it
\* failed; and the failure of a batch names the batch (its index among the
\* batches of the call), the rows it covered and the warehouse's error.
C14_LoadCountOrBatchFailure ==
  (lcall.op = "load" /\ lcall.df # <<>> /\ lpc = "idle") =>
    \/ /\ lret = Return(Len(lcall.df))
       /\ lcall.sent = Len(lcall.df)
    \/ /\ lret.kind = "raise"
       /\ lret.cause = "DBAPIError" =>
            /\ {"batch_index", "row_range"} \subseteq DOMAIN lret
            /\ lret.batch_index = lcall.sent \div lcall.chunk_size
            /\ lret.row_range = <<lcall.sent, ChunkEnd - 1>>

\* ------------------------------------------------- properties of pipeline

\* The pre-flight connection test has passed.
PreFlightPassed == job >= 1

\* The positions in jobs_done of the jobs that ended well / failed.
Processed == {j \in 1..Len(jobs_done) : jobs_done[j].outcome = "loaded"}
Failed == {j \in 1..Len(jobs_done) : jobs_done[j].outcome # "loaded"}

\* Entry k of metrics['errors'] names the k-th failed job.
ErrorsNameFailedJobs ==
  /\ Len(metrics.errors) = Cardinality(Failed)
  /\ \A k \in 1..Len(metrics.errors) :
       \E j \in Failed :
         /\ metrics.errors[k].job = jobs_done[j].job
         /\ Cardinality({i \in Failed : i <= j}) = k

\* What holds of a run whose pre-flight test passed, at every moment: the
\* jobs attempted so far are the first jobs of the list, each once and in
\* list order, whatever became of the earlier ones; every failed job has
\* its one entry in errors and every other job counts in tables_processed;
\* at the summary every job has been attempted, so that tables_processed
\* and the errors add up to the number of jobs; and the exit status is
\* non-zero exactly when a job failed.
JobsIsolated ==
  PreFlightPassed =>
    /\ Len(jobs_done) = (IF ppc = "validate" THEN job - 1
                         ELSE IF ppc = "jobs" THEN job - 1
                         ELSE Len(Jobs))
    /\ \A j \in 1..Len(jobs_done) : jobs_done[j].job = Jobs[j]
    /\ metrics.tables_processed = Cardinality(Processed)
    /\ ErrorsNameFailedJobs
    /\ metrics.tables_processed + Len(metrics.errors) = Len(jobs_done)
    /\ ppc \in {"summary", "exited"} =>
         metrics.tables_processed + Len(metrics.errors) = Len(Jobs)
    /\ ppc = "exited" =>
         /\ Len(exit_code) = 1
         /\ exit_code[1] # 0 <=> Failed # {}
    /\ ppc # "exited" => exit_code = <<>>

\* C15: job failures are isolated.  JobsIsolated holds throughout, and a run
\* whose pre-flight test passed and that has not ended yet always reaches
\* the summary, and then exits.
C15_JobFailuresIsolated ==
  /\ []JobsIsolated
  /\ ((PreFlightPassed /\ ppc # "exited") ~> ppc = "summary")
  /\ (ppc = "summary" ~> ppc = "exited")

\* The first job failed in extraction, the second in its load, the third was
\* loaded, and main has exited.
C15_Witness ==
  /\ ppc = "exited" /\ PreFlightPassed /\ Len(jobs_done) = 3
  /\ jobs_done[1].outcome = "extract_failed"
  /\ jobs_done[2].outcome = "load_failed"
  /\ jobs_done[3].outcome = "loaded"
  /\ metrics.tables_processed = 1 /\ Len(metrics.errors) = 2
  /\ exit_code = <<1>>

RECURSIVE SumOver(_, _, _)
\* The sum of f[j] over the first k positions j of f that are in S.
SumOver(f, S, k) ==
  IF k = 0 THEN 0
  ELSE (IF k \in S THEN f[k] ELSE 0) + SumOver(f, S, k - 1)

\* The jobs whose validate call returned: those that got as far as load.
Validated ==
  {j \in 1..Len(jobs_done) : jobs_done[j].outcome \in {"loaded", "load_failed"}}

\* C17: at every moment of a run, rows_loaded is the sum, over the jobs whose
\* load succeeded, of the rows validate accepted for the job, and is the
\* number of rows committed to the tables; a job whose load failed adds
\* nothing to it, while rows_rejected counts the rejected rows of every job
\* that was validated, load failed or not; and a job with no accepted row
\* has succeeded, adding 0.
C17_RowAccounting ==
  LET accepted == [j \in 1..Len(jobs_done) |-> jobs_done[j].accepted]
      rejected == [j \in 1..Len(jobs_done) |-> jobs_done[j].rejected]
  IN  /\ metrics.rows_loaded = SumOver(accepted, Processed, Len(jobs_done))
      /\ metrics.rows_loaded = raw[Jobs[1]] + raw[Jobs[2]] + raw[Jobs[3]]
      /\ metrics.rows_rejected = SumOver(rejected, Validated, Len(jobs_done))
      /\ \A j \in Validated :
           jobs_done[j].accepted = 0 => jobs_done[j].outcome = "loaded"
      /\ \A j \in 1..Len(jobs_done) :
           raw[jobs_done[j].job] =
             IF j \in Processed THEN jobs_done[j].accepted ELSE 0

\* Three jobs done: one loaded two rows, one rejected a row and accepted one
\* but failed in its load, one rejected both of its rows and loaded nothing.
C17_Witness ==
  /\ ppc = "summary" /\ Len(jobs_done) = 3
  /\ jobs_done[1].outcome = "loaded" /\ jobs_done[1].accepted = 2
  /\ jobs_done[2].outcome = "load_failed"
  /\ jobs_done[2].accepted = 1 /\ jobs_done[2].rejected = 1
  /\ jobs_done[3].outcome = "loaded"
  /\ jobs_done[3].accepted = 0 /\ jobs_done[3].rejected = 2
  /\ metrics.rows_loaded = 2 /\ metrics.rows_rejected = 3
  /\ metrics.tables_processed = 2

====
